---- MODULE Spec2Model ----
(***************************************************************************)
(* A model of reader3's import de-duplication, book cache and export       *)
(* orchestration (backend/main.py, backend/cli.py, export_service.py,      *)
(* markdown_exporter.py, pdf_exporter.py).                                 *)
(*                                                                         *)
(* The HTTP handlers are `async def` functions that never await between    *)
(* their first and last statement touching the library, so each handler    *)
(* runs to completion on the event loop: one action per handler.  The CLI  *)
(* is a separate process and is an action of its own.                      *)
(***************************************************************************)
EXTENDS Integers, Sequences, FiniteSets, TLC

VARIABLES
    disk,      \* books/: folder name -> [exists, blob (book.pkl), sha (source.sha256),
               \*   by (who stored it last: "api" or "cli"), stale (a cached 'absent'
               \*   for this name was resident when import_book stored it)]
    exports,   \* books/<id>/exports/: folder name -> [dir, single, chapters, pdf,
               \*   files (the names of the files in the directory)]
    tmp,       \* the directories in the system's temporary area, by name
    cache,     \* load_book_cached's lru_cache: entries, most recently used first
    probes,    \* how many never-seen-before identifiers have been requested
    reads,     \* per identifier: reads of its stored blob while it stayed resident
    images,    \* books/<id>/images/: folder name -> [file name -> the file there]
    procs,     \* the ImageProcessor instances of the export calls under way
    stream,    \* the file responses that are being sent
    last       \* what the last handled request did and answered

vars == <<disk, exports, tmp, cache, probes, reads, images, procs, stream, last>>

---------------------------------------------------------------------------
(* Bounds of the model *)

\* distinct upload contents (byte strings) 1..NumBytes
NumBytes == 2
\* largest suffix k that _resolve_unique_folder may reach in '<base>_<k>_data'
MaxSuffix == 3
\* fresh identifiers that may be requested; more than the cache can hold
MaxProbes == 11
\* the longest spine of a stored book
MaxSpine == 3
\* the most entries a table of contents has, children included
MaxToc == 3
\* the longest run of special characters after a title's letters
MaxAffix == 2
\* the chunks a file response sends an artifact in
FileChunks == 2
\* the file responses that may be under way at once
MaxSending == 2
\* distinct contents 1..NumImageData of an image file
NumImageData == 2
\* the ImageProcessor instances that may be alive at once
MaxProcessors == 2

(* Program constants *)

\* @lru_cache(maxsize=10)
CacheMaxSize == 10

---------------------------------------------------------------------------
(* Names *)

Tok == <<"1", "2", "3", "4", "5", "6", "7", "8", "9", "10", "11", "12", "13", "14">>

Bytes == 1 .. NumBytes

\* base names of uploaded files, after _sanitize_book_name
Names == { <<"a">> }

\* '<base>_data' for k = 1 and '<base>_<k>_data' for k >= 2, as a token list
Candidate(base, k) ==
    IF k = 1 THEN base \o <<"data">> ELSE base \o <<Tok[k], "data">>

Folders == { Candidate(n, k) : n \in Names, k \in 1 .. MaxSuffix }

ProbeId(n) == <<"missing", Tok[n]>>

Ids == Folders \cup { ProbeId(n) : n \in 1 .. MaxProbes }

\* the identifiers that requests ask for by name: the two folders that
\* imports of "a.epub" fill first
HotIds == { Candidate(<<"a">>, 1), Candidate(<<"a">>, 2) }

---------------------------------------------------------------------------
(* Stored values *)

\* a ChapterContent of the spine: its title (text) and its HTML content
Chapter(title, content) == [title |-> title, content |-> content]

\* a TOCEntry: its title (text) and its child entries
Entry(title, children) == [title |-> title, children |-> children]

NoBook == [title |-> 0, origin |-> 0, spine |-> <<>>, toc |-> <<>>, images |-> {}]

NoHash == [alg |-> "none", of |-> 0]

NoFolder ==
    [exists |-> FALSE, blob |-> [kind |-> "none", book |-> NoBook],
     sha |-> NoHash, by |-> "none", stale |-> FALSE]

NoExports ==
    [dir |-> FALSE, single |-> "none", chapters |-> "none", pdf |-> "none", files |-> {}]

Absent == [found |-> FALSE, book |-> NoBook]

Present(book) == [found |-> TRUE, book |-> book]

\* hashlib.sha256 over the uploaded chunks: collision free on Bytes
HashUploadToTemp(b) == [alg |-> "sha256", of |-> b]

\* reader3.process_epub: the Book parsed from upload b. Uploads 1 and 2 are
\* two files of the same title; the spine has two chapters, the second
\* untitled; the table of contents has an entry and its child
ProcessEpub(b) ==
    [title  |-> (b + 1) \div 2,
     origin |-> b,
     spine  |-> << Chapter(<<"A">>, 1), Chapter(<<>>, 2) >>,
     toc    |-> << Entry(<<"A">>, << Entry(<<"B">>, <<>>) >>) >>,
     images |-> {}]

\* reader3.save_to_pickle: the blob written for a Book
SaveToPickle(book) == [kind |-> "book", book |-> book]

\* a stored blob that no longer deserializes (truncated, or of an
\* incompatible version); it remembers the book it was written for
CorruptBlob(book) == [kind |-> "corrupt", book |-> book]

\* _ReaderUnpickler(f).load(): the Book, or the exception the decoder raises
Unpickle(blob) ==
    IF blob.kind = "book"
    THEN [ok |-> TRUE, exc |-> "none", book |-> blob.book]
    ELSE [ok |-> FALSE, exc |-> "UnpicklingError", book |-> NoBook]

\* os.path.exists(os.path.join(BOOKS_DIR, folder_name, "book.pkl"))
PklExists(d, id) == id \in DOMAIN d /\ d[id].exists /\ d[id].blob.kind # "none"

\* the identifier names a stored blob that deserializes
Loadable(d, id) == id \in DOMAIN d /\ d[id].exists /\ d[id].blob.kind = "book"

---------------------------------------------------------------------------
(* Images: image_processor.py *)

\* the names of the image files that chapters refer to
ImageNames == {"p.png", "q"}

ImageData == 1 .. NumImageData

\* what is at images/<name>: nothing, a file that cannot be read, or a file
\* of some content
NoImage == 0

Unreadable == -1

ImageFiles == {NoImage, Unreadable} \cup ImageData

NoImages == [n \in ImageNames |-> NoImage]

\* encode_image: base64.b64encode(image_data).decode('utf-8')
EncodeImage(data) == <<"base64", data>>

\* get_mime_type: by the extension, 'image/jpeg' when it tells nothing
GetMimeType(filename) ==
    CASE filename = "p.png" -> "image/png"
      [] OTHER              -> "image/jpeg"

\* the None that get_base64_data_uri returns for an image it cannot give
NoUri == [mime |-> "none", encoded |-> <<"base64", 0>>]

\* f"data:{mime_type};base64,{encoded}"
DataUri(filename, data) ==
    [mime |-> GetMimeType(filename), encoded |-> EncodeImage(data)]

\* ImageProcessor(BOOKS_DIR, book_id): the images directory it reads is that
\* of the book, its memo _cache is empty
ImageProcessor(id) == [id |-> id, memo |-> {}]

\* image_filename in self._cache
InMemo(memo, filename) == \E e \in memo : e[1] = filename

\* self._cache[image_filename]
MemoAt(memo, filename) == (CHOOSE e \in memo : e[1] = filename)[2]

\* get_base64_data_uri past its memo, on the images directory dir: None for
\* a file that is not there and for one whose reading raises, else the data
\* URI, which is memoized
ResolveImage(ip, dir, filename) ==
    IF dir[filename] = NoImage
    THEN [val |-> NoUri, exc |-> "none", read |-> FALSE, ip |-> ip]
    ELSE IF dir[filename] = Unreadable
    THEN [val |-> NoUri, exc |-> "none", read |-> TRUE, ip |-> ip]
    ELSE LET data_uri == DataUri(filename, dir[filename])
         IN  [val |-> data_uri, exc |-> "none", read |-> TRUE,
              ip |-> [ip EXCEPT !.memo = { e \in @ : e[1] # filename }
                                           \cup { <<filename, data_uri>> }]]

\* GetBase64DataUri with a fault: the memo is not looked at
GetBase64DataUri_NoMemo(ip, dir, filename) == ResolveImage(ip, dir, filename)

\* ImageProcessor.get_base64_data_uri(image_filename) on instance ip: the
\* value returned, whether the file was opened, and the instance afterwards
GetBase64DataUri(ip, dir, filename) ==
    IF InMemo(ip.memo, filename)
    THEN [val |-> MemoAt(ip.memo, filename), exc |-> "none", read |-> FALSE, ip |-> ip]
    ELSE ResolveImage(ip, dir, filename)

---------------------------------------------------------------------------
(* The book cache: load_book_cached under functools.lru_cache *)

\* the body of load_book_cached: None for a missing blob and for one that
\* does not deserialize, never an exception
LoadBookUncached(d, id) ==
    IF ~PklExists(d, id)
    THEN [exc |-> "none", val |-> Absent]
    ELSE LET u == Unpickle(d[id].blob)
         IN  IF u.ok
             THEN [exc |-> "none", val |-> Present(u.book)]
             ELSE [exc |-> "none", val |-> Absent]

\* the position of key k among the resident entries, 0 when it is not resident
CacheIndex(c, k) ==
    IF \E i \in 1 .. Len(c) : c[i].key = k
    THEN CHOOSE i \in 1 .. Len(c) : c[i].key = k
    ELSE 0

RemoveAt(s, i) == SubSeq(s, 1, i - 1) \o SubSeq(s, i + 1, Len(s))

\* CacheLookup with a fault: a cached None is taken for a miss
CacheLookup_SkipsNone(c, k) ==
    LET i == CacheIndex(c, k)
    IN  IF i # 0 /\ c[i].val.found THEN i ELSE 0

\* lru_cache's lookup: any resident entry is a hit, a cached None included
CacheLookup(c, k) == CacheIndex(c, k)

\* CacheInsert with a fault: the oldest entry is not dropped on overflow
CacheInsert_NoEviction(c, k, v) == <<[key |-> k, val |-> v]>> \o c

\* lru_cache's insertion after a miss: newest first, the least recently used
\* entry dropped when maxsize is exceeded
CacheInsert(c, k, v) ==
    LET grown == <<[key |-> k, val |-> v]>> \o c
    IN  IF Len(grown) > CacheMaxSize THEN SubSeq(grown, 1, CacheMaxSize) ELSE grown

\* load_book_cached(id) on cache c and library d: the value returned, the
\* cache afterwards, and whether the stored blob was read
LoadBookCached(c, d, id) ==
    LET i == CacheLookup(c, id)
    IN  IF i # 0
        THEN [val |-> c[i].val, exc |-> "none", read |-> FALSE,
              cache |-> <<c[i]>> \o RemoveAt(c, i)]
        ELSE LET r == LoadBookUncached(d, id)
             IN  [val |-> r.val, exc |-> r.exc, read |-> TRUE,
                  cache |-> CacheInsert(RemoveAt(c, CacheIndex(c, id)), id, r.val)]

Resident(c) == { c[i].key : i \in 1 .. Len(c) }

\* reads of each identifier's blob since it last became resident
ReadsAfter(rd, c2, id, read) ==
    [i \in Ids |->
        IF i \notin Resident(c2) THEN 0
        ELSE IF i = id /\ read THEN rd[i] + 1 ELSE rd[i]]

---------------------------------------------------------------------------
(* Import: backend/main.py import_book and backend/cli.py main *)

\* what a request left in `last`; every action fills in its own fields
Idle ==
    [op |-> "init", id |-> <<>>, status |-> 0, exc |-> "none",
     val |-> Absent, resident |-> FALSE, residentVal |-> Absent, read |-> FALSE,
     bytes |-> 0, known |-> FALSE, parsed |-> FALSE, stage |-> "none",
     detail |-> [byTitle |-> FALSE, title |-> 0, id |-> <<>>],
     format |-> "none", mode |-> "none", fault |-> "none",
     kind |-> "none", mime |-> "none", suffix |-> <<>>, tmpUsed |-> FALSE,
     tmpName |-> 0, filename |-> <<>>, path |-> <<>>, overwrote |-> FALSE,
     doc |-> <<>>, zip |-> {}, proc |-> 0, image |-> "", uri |-> NoUri,
     name |-> <<>>, book |-> NoBook, toc |-> <<>>, flat |-> <<>>, title |-> <<>>]

\* item.endswith("_data") and os.path.isdir(item_path)
IsBookFolder(d, f) == f[Len(f)] = "data" /\ d[f].exists

\* FindDuplicateByHash with a fault: no stored fingerprint is ever matched
FindDuplicateByHash_Never(d, h) == {}

\* _find_duplicate_by_hash: the folders whose source.sha256 holds h; the code
\* returns the first one in os.listdir's order, which is any of them
FindDuplicateByHash(d, h) ==
    { f \in DOMAIN d : IsBookFolder(d, f) /\ d[f].sha.alg # "none" /\ d[f].sha = h }

FreeSuffixes(d, base) == { k \in 1 .. MaxSuffix : ~d[Candidate(base, k)].exists }

\* ResolveUniqueFolder with a fault: '<base>_data' whether it exists or not
ResolveUniqueFolder_Base(d, base) == Candidate(base, 1)

\* _resolve_unique_folder: '<base>_data', or the first free '<base>_<k>_data'
ResolveUniqueFolder(d, base) ==
    LET k == CHOOSE k \in FreeSuffixes(d, base) :
                 \A j \in FreeSuffixes(d, base) : k <= j
    IN  Candidate(base, k)

\* CacheAfterImport with a fault: the cache is not cleared
CacheAfterImport_NoClear(c) == c

\* load_book_cached.cache_clear() after a successful import
CacheAfterImport(c) == <<>>

\* the detail of the 409 answer: the title of the existing book, or its
\* identifier when load_book_cached has no book for it
DuplicateDetail(dup, val) ==
    IF val.found
    THEN [byTitle |-> TRUE, title |-> val.book.title, id |-> <<>>]
    ELSE [byTitle |-> FALSE, title |-> 0, id |-> dup]

ImportFaults == {"none", "parse", "save", "fingerprint"}

\* import_book's except clauses: an HTTPException is raised again as it is,
\* any other exception becomes the 500 'Import failed'
ImportResponse(exc, status) ==
    IF exc = "HTTPException"
    THEN [status |-> status, stage |-> "none"]
    ELSE [status |-> 500, stage |-> "Import failed"]

\* the folder chosen for an import at the moment the step named by fault
\* raises: process_epub has made it, save_to_pickle may have left a blob
\* that does not load, the fingerprint may be missing
FolderAtFault(book, fault) ==
    CASE fault = "parse" -> [NoFolder EXCEPT !.exists = TRUE]
      [] fault = "save"  -> [NoFolder EXCEPT !.exists = TRUE, !.blob = CorruptBlob(book)]
      [] OTHER           -> [NoFolder EXCEPT !.exists = TRUE, !.blob = SaveToPickle(book),
                                             !.by = "api"]

\* RemoveOutputDir with a fault: the folder of a failed import is left behind
RemoveOutputDir_Keeps(d, folder) == d

\* shutil.rmtree(output_dir, ignore_errors=True) in import_book's except clause
RemoveOutputDir(d, folder) ==
    IF d[folder].exists THEN [d EXCEPT ![folder] = NoFolder] ELSE d

\* tempfile.NamedTemporaryFile(delete=False): a new file in the temporary
\* area, under a name nothing there has
NamedTemporaryFile(t) == CHOOSE n \in 1 .. Cardinality(t) + 1 : n \notin t

\* os.remove(temp_path) in import_book's finally clause
RemoveTempFile(t, temp_path) == t \ {temp_path}

\* POST /api/books/import with a file named <name>.epub holding upload b;
\* fault names the step that raises, if any
ImportBook(name, b, fault) ==
    LET h     == HashUploadToTemp(b)
        dups  == FindDuplicateByHash(disk, h)
        known == \E f \in DOMAIN disk : disk[f].exists /\ disk[f].sha = h
        temp_path == NamedTemporaryFile(tmp)
    IN  IF dups # {}
        THEN \E dup \in dups :
               LET g == LoadBookCached(cache, disk, dup)
               IN  /\ cache' = g.cache
                   /\ reads' = ReadsAfter(reads, g.cache, dup, g.read)
                   /\ disk' = disk
                   /\ last' = [Idle EXCEPT !.op = "import", !.id = dup,
                                 !.status = ImportResponse("HTTPException", 409).status,
                                 !.stage = ImportResponse("HTTPException", 409).stage,
                                 !.bytes = b, !.known = known,
                                 !.val = g.val, !.read = g.read,
                                 !.resident = dup \in Resident(cache),
                                 !.tmpUsed = TRUE, !.tmpName = temp_path,
                                 !.name = name,
                                 !.detail = DuplicateDetail(dup, g.val)]
                   /\ tmp' = RemoveTempFile(tmp \cup {temp_path}, temp_path)
                   /\ UNCHANGED <<exports, probes, images, procs, stream>>
        ELSE /\ FreeSuffixes(disk, name) # {}
             /\ LET folder == ResolveUniqueFolder(disk, name)
                    book   == ProcessEpub(b)
                IN  IF fault = "none"
                    THEN /\ disk' = [disk EXCEPT ![folder] =
                                       [exists |-> TRUE, blob |-> SaveToPickle(book),
                                        sha |-> h, by |-> "api",
                                        stale |-> \E i \in 1 .. Len(cache) :
                                                    /\ cache[i].key = folder
                                                    /\ ~cache[i].val.found]]
                         /\ cache' = CacheAfterImport(cache)
                         /\ reads' = ReadsAfter(reads, cache', folder, FALSE)
                         /\ last' = [Idle EXCEPT !.op = "import", !.id = folder,
                                       !.status = 200, !.bytes = b, !.known = known,
                                       !.tmpUsed = TRUE, !.tmpName = temp_path,
                                       !.name = name,
                                       !.parsed = TRUE, !.val = Present(book)]
                    ELSE \* except Exception: shutil.rmtree(output_dir), 500
                         /\ disk' = RemoveOutputDir(
                                       [disk EXCEPT ![folder] = FolderAtFault(book, fault)],
                                       folder)
                         /\ cache' = cache
                         /\ reads' = reads
                         /\ last' = [Idle EXCEPT !.op = "import", !.id = folder,
                                       !.status = ImportResponse("Exception", 0).status,
                                       !.stage = ImportResponse("Exception", 0).stage,
                                       !.bytes = b, !.known = known, !.parsed = TRUE,
                                       !.tmpUsed = TRUE, !.tmpName = temp_path,
                                       !.name = name,
                                       !.fault = fault]
             /\ tmp' = RemoveTempFile(tmp \cup {temp_path}, temp_path)
             /\ UNCHANGED <<exports, probes, images, procs, stream>>

\* python -m backend.cli <name>.epub holding upload b: parse and store into
\* '<name>_data'; no fingerprint is looked up or written, no cache is cleared.
\* Whether a fingerprint already in that folder survives is the parser's doing.
CliImport(name, b, keepSha) ==
    LET out == Candidate(name, 1)
    IN  /\ disk' = [disk EXCEPT ![out] =
                      [exists |-> TRUE, blob |-> SaveToPickle(ProcessEpub(b)),
                       sha |-> IF keepSha THEN disk[out].sha ELSE NoHash,
                       by |-> "cli", stale |-> FALSE]]
        /\ last' = [Idle EXCEPT !.op = "cli", !.id = out, !.bytes = b]
        /\ UNCHANGED <<exports, tmp, cache, probes, reads, images, procs, stream>>

\* FlattenToc with a fault: the children come after all their parent's siblings
RECURSIVE FlattenToc_ChildrenLast(_, _)
FlattenToc_ChildrenLast(entries, depth) ==
    IF entries = <<>> THEN <<>>
    ELSE LET entry == Head(entries)
         IN  << [title |-> entry.title, depth |-> depth] >>
             \o FlattenToc_ChildrenLast(Tail(entries), depth)
             \o (IF entry.children # <<>>
                 THEN FlattenToc_ChildrenLast(entry.children, depth + 1)
                 ELSE <<>>)

\* _flatten_toc(entries, spine_index, depth): an item per entry with its
\* title and depth, the items of its children right after it
RECURSIVE FlattenToc(_, _)
FlattenToc(entries, depth) ==
    IF entries = <<>> THEN <<>>
    ELSE LET entry == Head(entries)
         IN  << [title |-> entry.title, depth |-> depth] >>
             \o (IF entry.children # <<>>
                 THEN FlattenToc(entry.children, depth + 1)
                 ELSE <<>>)
             \o FlattenToc(Tail(entries), depth)

\* GET /api/books/{book_id}: load_book_cached(book_id), 404 when it is None
GetBookDetail(id) ==
    LET g == LoadBookCached(cache, disk, id)
    IN  /\ cache' = g.cache
        /\ reads' = ReadsAfter(reads, g.cache, id, g.read)
        /\ last' = [Idle EXCEPT !.op = "get", !.id = id,
                      !.status = IF g.val.found THEN 200 ELSE 404,
                      !.exc = g.exc, !.val = g.val, !.read = g.read,
                      !.flat = IF g.val.found THEN FlattenToc(g.val.book.toc, 0) ELSE <<>>,
                      !.resident = id \in Resident(cache),
                      !.residentVal = IF id \in Resident(cache)
                                      THEN cache[CacheIndex(cache, id)].val
                                      ELSE Absent]
        /\ UNCHANGED <<disk, exports, tmp, images, procs, stream>>

\* a request for a book by a name that requests use again and again
GetBook(id) == GetBookDetail(id) /\ UNCHANGED probes

\* a request for an identifier that no request has named before
GetFresh ==
    /\ probes < MaxProbes
    /\ probes' = probes + 1
    /\ GetBookDetail(ProbeId(probes + 1))

\* the artifact '<title>_single.md' of the book that is exported, and the
\* file responses under way for it; at the start there is no file
NoStream == [file |-> [content |-> <<>>, chunks |-> 0], sending |-> {}]

\* the library a server process may start on: empty, or holding one imported
\* book whose blob still loads or no longer does
Libraries ==
    LET none == [f \in Folders |-> NoFolder]
        a    == Candidate(<<"a">>, 1)
        one(blob) == [none EXCEPT ![a] =
                        [exists |-> TRUE, blob |-> blob,
                         sha |-> HashUploadToTemp(1), by |-> "api",
                         stale |-> FALSE]]
    IN  { none, one(SaveToPickle(ProcessEpub(1))), one(CorruptBlob(ProcessEpub(1))) }

Init ==
    /\ disk \in Libraries
    /\ exports = [f \in Folders |-> NoExports]
    /\ tmp = {}
    /\ cache = <<>>
    /\ probes = 0
    /\ reads = [i \in Ids |-> 0]
    /\ images = [f \in Folders |-> NoImages]
    /\ procs = <<>>
    /\ stream = NoStream
    /\ last = Idle

Next ==
    \/ \E name \in Names, b \in Bytes, fault \in ImportFaults : ImportBook(name, b, fault)
    \/ \E name \in Names, b \in Bytes, keepSha \in BOOLEAN : CliImport(name, b, keepSha)
    \/ \E id \in HotIds : GetBook(id)

\* imports through the server and the CLI, and requests for the books
Spec == Init /\ [][Next]_vars

NextCache ==
    \/ \E b \in {1, 2} : ImportBook(<<"a">>, b, "none")
    \/ \E id \in HotIds : GetBook(id)
    \/ GetFresh

\* the cache under capacity pressure: requests for ever new identifiers
SpecCache == Init /\ [][NextCache]_vars

---------------------------------------------------------------------------
(* Export: export_service.py, markdown_exporter.py, pdf_exporter.py *)

\* the calls export_book(id, format, mode) that requests make: markdown in
\* every mode, and the other formats without a mode or with one to ignore
ExportCalls ==
    { <<"markdown", m>> : m \in {"none", "single", "chapters", "other"} }
        \cup { <<"pdf", "none">>, <<"pdf", "chapters">>, <<"epub", "none">> }

\* the step of an encoder that raises, if any: the HTML conversion, making
\* the exports directory, opening the artifact, writing it
ExportFaults == {"none", "convert", "mkdir", "open", "write"}

\* LoadBook with a fault: the decoder's exception is not wrapped
LoadBook_Raw(d, id) ==
    IF ~PklExists(d, id)
    THEN [exc |-> "BookNotFoundError", book |-> NoBook]
    ELSE LET u == Unpickle(d[id].blob)
         IN  [exc |-> u.exc, book |-> u.book]

\* export_service.load_book: the Book, or BookNotFoundError for a missing blob
\* and for any exception raised while reading it
LoadBook(d, id) ==
    IF ~PklExists(d, id)
    THEN [exc |-> "BookNotFoundError", book |-> NoBook]
    ELSE LET u == Unpickle(d[id].blob)
         IN  IF u.ok
             THEN [exc |-> "none", book |-> u.book]
             ELSE [exc |-> "BookNotFoundError", book |-> NoBook]

\* EncoderFor with a fault: a mode that is neither 'single' nor 'chapters'
\* nor absent is refused
EncoderFor_StrictMode(format, mode) ==
    IF format = "markdown"
    THEN IF mode = "chapters" THEN "chapters"
         ELSE IF mode \in {"single", "none"} THEN "single" ELSE "unsupported"
    ELSE IF format = "pdf" THEN "pdf" ELSE "unsupported"

\* EncoderFor with a fault: any format but markdown is taken for pdf
EncoderFor_PdfByDefault(format, mode) ==
    IF format = "markdown"
    THEN IF mode = "chapters" THEN "chapters" ELSE "single"
    ELSE "pdf"

\* export_book's routing: the encoder a format and mode select
EncoderFor(format, mode) ==
    IF format = "markdown"
    THEN IF mode = "chapters" THEN "chapters" ELSE "single"
    ELSE IF format = "pdf" THEN "pdf" ELSE "unsupported"

MimeOf(kind) ==
    CASE kind = "single"   -> "text/markdown"
      [] kind = "chapters" -> "application/zip"
      [] kind = "pdf"      -> "application/pdf"
      [] OTHER             -> "none"

---------------------------------------------------------------------------
(* Text: strings are sequences of one-character strings *)

DigitChar == <<"0", "1", "2", "3", "4", "5", "6", "7", "8", "9">>

\* the characters the pattern \w matches
WordChars ==
    {"A", "B", "C", "D", "E", "F", "G", "H", "I", "J", "K", "L", "M",
     "N", "O", "P", "Q", "R", "S", "T", "U", "V", "W", "X", "Y", "Z",
     "a", "b", "c", "d", "e", "f", "g", "h", "i", "j", "k", "l", "m",
     "n", "o", "p", "q", "r", "s", "t", "u", "v", "w", "x", "y", "z", "_"}
        \cup { DigitChar[i] : i \in 1 .. 10 }

\* the characters str.strip() removes
Whitespace == {" ", "\t", "\n"}

\* the characters of the pattern [/\\:*?"<>|]
InvalidChars == {"/", "\\", ":", "*", "?", "\"", "<", ">", "|"}

\* str(n) for n >= 0
RECURSIVE Decimal(_)
Decimal(n) ==
    IF n < 10
    THEN <<DigitChar[n + 1]>>
    ELSE Decimal(n \div 10) \o <<DigitChar[(n % 10) + 1]>>

\* f"{i:02d}"
ZeroPad2(i) == IF i < 10 THEN <<"0">> \o Decimal(i) ELSE Decimal(i)

RemoveChars(s, S) == SelectSeq(s, LAMBDA c : c \notin S)

KeepChars(s, S) == SelectSeq(s, LAMBDA c : c \in S)

ReplaceChar(s, a, b) == [i \in 1 .. Len(s) |-> IF s[i] = a THEN b ELSE s[i]]

\* re.sub(r'_+', '_', s): of a run of underscores only the first is kept
CollapseUnderscores(s) ==
    LET kept == SelectSeq([i \in 1 .. Len(s) |-> i],
                          LAMBDA i : ~(s[i] = "_" /\ i > 1 /\ s[i - 1] = "_"))
    IN  [k \in 1 .. Len(kept) |-> s[kept[k]]]

\* s.strip(S): s from its first to its last character outside S
Strip(s, S) ==
    LET inner == { i \in 1 .. Len(s) : s[i] \notin S }
    IN  IF inner = {} THEN <<>>
        ELSE SubSeq(s, CHOOSE i \in inner : \A j \in inner : i <= j,
                       CHOOSE i \in inner : \A j \in inner : j <= i)

\* s.rstrip(S)
RStrip(s, S) ==
    LET inner == { i \in 1 .. Len(s) : s[i] \notin S }
    IN  IF inner = {} THEN <<>>
        ELSE SubSeq(s, 1, CHOOSE i \in inner : \A j \in inner : j <= i)

BookExport == <<"b", "o", "o", "k", "_", "e", "x", "p", "o", "r", "t">>

\* the default of sanitize_filename's max_length
SanitizeMaxLength == 200

\* SanitizeFilename with a fault: the length is not limited
SanitizeFilename_NoLimit(title, max_length) ==
    IF Strip(title, Whitespace) = <<>> THEN BookExport
    ELSE LET valid     == RemoveChars(title, InvalidChars)
             spaced    == ReplaceChar(valid, " ", "_")
             kept      == KeepChars(spaced, WordChars \cup {"-", "."})
             collapsed == CollapseUnderscores(kept)
             stripped  == Strip(collapsed, {"_"})
         IN  IF stripped = <<>> THEN BookExport ELSE stripped

\* export_service.sanitize_filename
SanitizeFilename(title, max_length) ==
    IF Strip(title, Whitespace) = <<>> THEN BookExport
    ELSE LET valid     == RemoveChars(title, InvalidChars)
             spaced    == ReplaceChar(valid, " ", "_")
             kept      == KeepChars(spaced, WordChars \cup {"-", "."})
             collapsed == CollapseUnderscores(kept)
             stripped  == Strip(collapsed, {"_"})
             limited   == IF Len(stripped) > max_length
                          THEN RStrip(SubSeq(stripped, 1, max_length), {"_"})
                          ELSE stripped
         IN  IF limited = <<>> THEN BookExport ELSE limited

\* the text of a book's metadata.title, by the title's number: the title of
\* the first upload needs sanitizing, the second is blank
TitleText(t) ==
    CASE t = 1 -> <<"M", "y", " ", "B", ":", " ", "A">>
      [] t = 2 -> <<" ">>
      [] OTHER -> <<"T">> \o Decimal(t)

---------------------------------------------------------------------------
(* What the encoders write.  A Book has a spine, a sequence of chapters      *)
(* [title, content], and a toc, a forest of entries [title, children].  A    *)
(* document is the sequence of the pieces appended to it before ''.join.     *)

Piece(kind, n, text, link) == [piece |-> kind, n |-> n, text |-> text, link |-> link]

\* generate_frontmatter(metadata): the YAML block between '---' lines
GenerateFrontmatter(title) == Piece("frontmatter", 0, title, <<>>)

\* the src of each <img> in a chapter's HTML, by the content's number, as
\* path components; <<>> is an <img> without src
ImgSrcs(content) ==
    CASE content = 3 -> << <<"images", "p.png">>, <<>>, <<"images", "q">> >>
      [] content = 4 -> << <<"images", "p.png">> >>
      [] OTHER       -> <<>>

\* os.path.basename(src)
Basename(src) == src[Len(src)]

\* ReplaceSrc with a fault: the src of an image that is not found is removed
ReplaceSrc_DropsMissing(src, data_uri) ==
    IF data_uri # NoUri
    THEN [src |-> <<>>, uri |-> data_uri]
    ELSE [src |-> <<>>, uri |-> NoUri]

\* the <img> after `if data_uri: img['src'] = data_uri`, else a warning
ReplaceSrc(src, data_uri) ==
    IF data_uri # NoUri
    THEN [src |-> <<>>, uri |-> data_uri]
    ELSE [src |-> src, uri |-> NoUri]

\* the loop `for img in soup.find_all('img')` from the k-th <img> on, with
\* image processor ip on images directory im: the tags afterwards and the
\* image processor afterwards.  The tags are those of the parsed copy, soup.
RECURSIVE EmbedImagesFrom(_, _, _, _)
EmbedImagesFrom(srcs, k, ip, im) ==
    IF k > Len(srcs) THEN [imgs |-> <<>>, ip |-> ip]
    ELSE IF srcs[k] = <<>>
    THEN LET rest == EmbedImagesFrom(srcs, k + 1, ip, im)
         IN  [imgs |-> << [src |-> <<>>, uri |-> NoUri] >> \o rest.imgs, ip |-> rest.ip]
    ELSE LET r    == GetBase64DataUri(ip, im, Basename(srcs[k]))
             rest == EmbedImagesFrom(srcs, k + 1, r.ip, im)
         IN  [imgs |-> << ReplaceSrc(srcs[k], r.val) >> \o rest.imgs, ip |-> rest.ip]

EmbedImages(content, ip, im) == EmbedImagesFrom(ImgSrcs(content), 1, ip, im)

\* the image processor after the chapters before spine[k] went through it
RECURSIVE ProcessorAt(_, _, _, _)
ProcessorAt(spine, k, ip, im) ==
    IF k <= 1 THEN ip
    ELSE EmbedImages(spine[k - 1].content, ProcessorAt(spine, k - 1, ip, im), im).ip

\* ChapterAfterEmbed with a fault: the embedded HTML is stored in the chapter
ChapterAfterEmbed_InPlace(chapter, imgs) == [chapter EXCEPT !.content = 0]

\* the chapter object after its images were embedded: BeautifulSoup(html)
\* parses a copy, img['src'] is set in the copy, chapter.content is not assigned
ChapterAfterEmbed(chapter, imgs) == chapter

\* the Book object after an encoder went through its spine
BookAfterEmbed(book, ip, im) ==
    [book EXCEPT !.spine =
        [k \in 1 .. Len(book.spine) |->
            ChapterAfterEmbed(book.spine[k],
                EmbedImages(book.spine[k].content,
                            ProcessorAt(book.spine, k, ip, im), im).imgs)]]

\* html_to_markdown(chapter.content, image_processor, ..): the Markdown of a
\* chapter's HTML, the images in it embedded
HtmlToMarkdown(content, ip, im) ==
    Piece("markdown", content, EmbedImages(content, ip, im).imgs, <<>>)

\* f"chapter-{i}"
AnchorName(i) == <<"c", "h", "a", "p", "t", "e", "r", "-">> \o Decimal(i)

MdExt == <<".", "m", "d">>

\* f"{i:02d}_{sanitize_filename(title)}.md"
IndexedFileName(i, title) ==
    ZeroPad2(i) \o <<"_">> \o SanitizeFilename(title, SanitizeMaxLength) \o MdExt

\* the link generate_toc_markdown gives the entry it enumerates as number i
TocLink(mode, i, entry) ==
    IF mode = "single"
    THEN <<"#">> \o AnchorName(i)
    ELSE IndexedFileName(i, entry.title)

\* markdown_exporter.generate_toc_markdown: one line per entry, the lines of
\* its children right after it; i is enumerate's index in the list at hand
RECURSIVE GenerateTocMarkdownFrom(_, _, _, _)
GenerateTocMarkdownFrom(toc, mode, level, k) ==
    IF k > Len(toc) THEN <<>>
    ELSE LET entry == toc[k]
             i     == k - 1
             line  == Piece("toc", level, entry.title, TocLink(mode, i, entry))
             below == IF entry.children # <<>>
                      THEN GenerateTocMarkdownFrom(entry.children, mode, level + 1, 1)
                      ELSE <<>>
         IN  <<line>> \o below \o GenerateTocMarkdownFrom(toc, mode, level, k + 1)

GenerateTocMarkdown(toc, mode, level) == GenerateTocMarkdownFrom(toc, mode, level, 1)

\* SingleChapter with a fault: the divider follows every chapter
SingleChapter_AlwaysDivider(spine, k, ip, im) ==
    LET i == k - 1
    IN  << Piece("anchor", i, AnchorName(i), <<>>),
           Piece("heading", i + 1, <<>>, <<>>),
           HtmlToMarkdown(spine[k].content, ProcessorAt(spine, k, ip, im), im),
           Piece("divider", 0, <<>>, <<>>) >>

\* the body of export_single_file's loop for chapter spine[k] (i = k - 1):
\* anchor, heading 'Chapter i+1', content, and the divider unless it is last
SingleChapter(spine, k, ip, im) ==
    LET i == k - 1
    IN  << Piece("anchor", i, AnchorName(i), <<>>),
           Piece("heading", i + 1, <<>>, <<>>),
           HtmlToMarkdown(spine[k].content, ProcessorAt(spine, k, ip, im), im) >>
        \o (IF i < Len(spine) - 1 THEN << Piece("divider", 0, <<>>, <<>>) >> ELSE <<>>)

RECURSIVE SingleChaptersFrom(_, _, _, _)
SingleChaptersFrom(spine, k, ip, im) ==
    IF k > Len(spine) THEN <<>>
    ELSE SingleChapter(spine, k, ip, im) \o SingleChaptersFrom(spine, k + 1, ip, im)

\* the text export_single_file writes: frontmatter, title, table of
\* contents, a rule, then the chapters in spine order
SingleFileOutput(book, ip, im) ==
    << GenerateFrontmatter(TitleText(book.title)),
       Piece("title", 0, TitleText(book.title), <<>>),
       Piece("toc-heading", 0, <<>>, <<>>) >>
    \o GenerateTocMarkdown(book.toc, "single", 0)
    \o << Piece("rule", 0, <<>>, <<>>) >>
    \o SingleChaptersFrom(book.spine, 1, ip, im)

ReadmeName == <<"R", "E", "A", "D", "M", "E">> \o MdExt

\* the README.md export_chapters writes
ReadmeContent(book) ==
    << GenerateFrontmatter(TitleText(book.title)),
       Piece("title", 0, TitleText(book.title), <<>>),
       Piece("toc-heading", 0, <<>>, <<>>) >>
    \o GenerateTocMarkdown(book.toc, "chapters", 0)

\* chapter.title if chapter.title else f"Chapter_{i+1}"
ChapterTitle(chapter, i) ==
    IF chapter.title # <<>>
    THEN chapter.title
    ELSE <<"C", "h", "a", "p", "t", "e", "r", "_">> \o Decimal(i + 1)

\* ChapterFileName with a fault: the spine index is left out of the name
ChapterFileName_NoIndex(chapter, i) ==
    SanitizeFilename(ChapterTitle(chapter, i), SanitizeMaxLength) \o MdExt

\* the name of the file export_chapters writes for spine[i]
ChapterFileName(chapter, i) == IndexedFileName(i, ChapterTitle(chapter, i))

\* open(path, 'w') and write in a directory: a file of that name is replaced
WriteFile(dir, name, content) ==
    { f \in dir : f.name # name } \cup { [name |-> name, content |-> content] }

\* export_chapters' loop over the spine, from chapter spine[k] on
RECURSIVE WriteChapterFiles(_, _, _, _, _)
WriteChapterFiles(dir, spine, k, ip, im) ==
    IF k > Len(spine) THEN dir
    ELSE LET i       == k - 1
             chapter == spine[k]
             content == << Piece("title", 0, ChapterTitle(chapter, i), <<>>),
                           HtmlToMarkdown(chapter.content,
                                          ProcessorAt(spine, k, ip, im), im) >>
         IN  WriteChapterFiles(WriteFile(dir, ChapterFileName(chapter, i), content),
                               spine, k + 1, ip, im)

\* the files in export_chapters' temporary directory before the archive is built
ChaptersTempDir(book, ip, im) ==
    WriteChapterFiles(WriteFile({}, ReadmeName, ReadmeContent(book)), book.spine, 1, ip, im)

\* the archive: every file os.walk finds, under its path relative to temp_dir
ZipArchive(dir) == { [name |-> f.name, content |-> f.content] : f \in dir }

\* CombineChapter with a fault: the chapters are taken from the end of the spine
CombineChapter_Reversed(spine, k, ip, im) ==
    LET i == k - 1
    IN  << Piece("chapter-open", 0, <<>>, <<>>),
           Piece("heading", i + 1, <<>>, <<>>),
           Piece("html", spine[Len(spine) + 1 - k].content,
                 EmbedImages(spine[Len(spine) + 1 - k].content,
                             ProcessorAt(spine, k, ip, im), im).imgs, <<>>),
           Piece("chapter-close", 0, <<>>, <<>>) >>
        \o (IF i < Len(spine) - 1 THEN << Piece("page-break", 0, <<>>, <<>>) >> ELSE <<>>)

\* the body of combine_chapters_html's loop for chapter spine[k] (i = k - 1)
CombineChapter(spine, k, ip, im) ==
    LET i == k - 1
    IN  << Piece("chapter-open", 0, <<>>, <<>>),
           Piece("heading", i + 1, <<>>, <<>>),
           Piece("html", spine[k].content,
                 EmbedImages(spine[k].content, ProcessorAt(spine, k, ip, im), im).imgs,
                 <<>>),
           Piece("chapter-close", 0, <<>>, <<>>) >>
        \o (IF i < Len(spine) - 1 THEN << Piece("page-break", 0, <<>>, <<>>) >> ELSE <<>>)

RECURSIVE CombineChaptersFrom(_, _, _, _)
CombineChaptersFrom(spine, k, ip, im) ==
    IF k > Len(spine) THEN <<>>
    ELSE CombineChapter(spine, k, ip, im) \o CombineChaptersFrom(spine, k + 1, ip, im)

\* pdf_exporter.combine_chapters_html
CombineChaptersHtml(spine, ip, im) == CombineChaptersFrom(spine, 1, ip, im)

\* the HTML export_pdf hands to write_pdf: header, title page, chapters, footer
PdfHtml(book, ip, im) ==
    << Piece("html-head", 0, TitleText(book.title), <<>>),
       Piece("title-page", 0, TitleText(book.title), <<>>) >>
    \o CombineChaptersHtml(book.spine, ip, im)
    \o << Piece("html-foot", 0, <<>>, <<>>) >>

\* the suffix of an artifact's name, by the encoder that writes it
SuffixOf(kind) ==
    CASE kind = "single"   -> <<"_", "s", "i", "n", "g", "l", "e">> \o MdExt
      [] kind = "chapters" -> <<"_", "c", "h", "a", "p", "t", "e", "r", "s", ".", "z", "i", "p">>
      [] kind = "pdf"      -> <<".", "p", "d", "f">>
      [] OTHER             -> <<>>

\* the path an encoder writes its artifact to:
\* os.path.join(BOOKS_DIR, book_id, 'exports', f"{sanitize_filename(title)}<suffix>")
OutputFile(book, id, kind) ==
    << "books", id, "exports",
       SanitizeFilename(TitleText(book.title), SanitizeMaxLength) \o SuffixOf(kind) >>

\* ResultFilename with a fault: the title is used as it is
ResultFilename_RawTitle(book, kind) == TitleText(book.title) \o SuffixOf(kind)

\* the filename export_book puts in its ExportResult
ResultFilename(book, kind) ==
    SanitizeFilename(TitleText(book.title), SanitizeMaxLength) \o SuffixOf(kind)

\* ArtifactAfter with a fault: a name already taken is not overwritten, the
\* artifact is written under the name with a '.1' appended
ArtifactAfter_NoOverwrite(x, kind, path, fault) ==
    LET made == [x EXCEPT !.dir = TRUE]
        name == IF path[Len(path)] \in x.files
                THEN path[Len(path)] \o <<".", "1">>
                ELSE path[Len(path)]
    IN  CASE fault \in {"convert", "mkdir", "readme", "chapter"} -> x
          [] fault = "open"  -> made
          [] fault = "write" -> [made EXCEPT ![kind] = "partial", !.files = @ \cup {name}]
          [] OTHER           -> [made EXCEPT ![kind] = "complete", !.files = @ \cup {name}]

\* the exports directory x of a book after an encoder wrote (or failed to
\* write) the artifact of its kind at path: os.makedirs, then open(.., 'w')
\* or ZipFile(.., 'w') or write_pdf on the final path itself
ArtifactAfter(x, kind, path, fault) ==
    LET made == [x EXCEPT !.dir = TRUE]
        name == path[Len(path)]
    IN  CASE fault \in {"convert", "mkdir", "readme", "chapter"} -> x
          [] fault = "open"  -> made
          [] fault = "write" -> [made EXCEPT ![kind] = "partial", !.files = @ \cup {name}]
          [] OTHER           -> [made EXCEPT ![kind] = "complete", !.files = @ \cup {name}]

\* the exception an encoder lets out for a fault: none of them catches any
EncoderRaises(fault) ==
    CASE fault = "none"    -> "none"
      [] fault = "convert" -> "ValueError"
      [] OTHER             -> "OSError"

\* tempfile.mkdtemp: a new directory under a name that nothing in the
\* temporary area t has
Mkdtemp(t) == CHOOSE n \in 1 .. Cardinality(t) + 1 : n \notin t

\* TemporaryDirectoryExit with a fault: the directory is removed on return only
TemporaryDirectoryExit_OnReturnOnly(t, name, exc) ==
    IF exc = "none" THEN t \ {name} ELSE t

\* leaving the block `with tempfile.TemporaryDirectory() as temp_dir`, by
\* return or by exception exc: the directory and all in it are removed
TemporaryDirectoryExit(t, name, exc) == t \ {name}

\* markdown_exporter.export_single_file
ExportSingleFile(book, id, x, t, im, fault) ==
    LET path == OutputFile(book, id, "single")
        exc  == EncoderRaises(fault)
    IN  [exc |-> exc, exports |-> ArtifactAfter(x, "single", path, fault),
         tmp |-> t, tmpUsed |-> FALSE, tmpName |-> 0, path |-> path,
         doc |-> IF exc = "none" THEN SingleFileOutput(book, ImageProcessor(id), im) ELSE <<>>,
         zip |-> {}, book |-> BookAfterEmbed(book, ImageProcessor(id), im)]

\* markdown_exporter.export_chapters: README and chapter files are written
\* into a tempfile.TemporaryDirectory, which is removed when the block is left
ExportChapters(book, id, x, t, im, fault) ==
    LET temp_dir == Mkdtemp(t)
        inside   == t \cup {temp_dir}
        path     == OutputFile(book, id, "chapters")
        exc      == EncoderRaises(fault)
    IN  [exc |-> exc, exports |-> ArtifactAfter(x, "chapters", path, fault),
         tmp |-> TemporaryDirectoryExit(inside, temp_dir, exc),
         tmpUsed |-> TRUE, tmpName |-> temp_dir, path |-> path, doc |-> <<>>,
         zip |-> IF exc = "none" THEN ZipArchive(ChaptersTempDir(book, ImageProcessor(id), im))
                ELSE {},
         book |-> BookAfterEmbed(book, ImageProcessor(id), im)]

\* pdf_exporter.export_pdf
ExportPdf(book, id, x, t, im, fault) ==
    LET path == OutputFile(book, id, "pdf")
        exc  == EncoderRaises(fault)
    IN  [exc |-> exc, exports |-> ArtifactAfter(x, "pdf", path, fault),
         tmp |-> t, tmpUsed |-> FALSE, tmpName |-> 0, path |-> path,
         doc |-> IF exc = "none" THEN PdfHtml(book, ImageProcessor(id), im) ELSE <<>>,
         zip |-> {}, book |-> BookAfterEmbed(book, ImageProcessor(id), im)]

Rejected(x, t, exc) ==
    [exc |-> exc, exports |-> x, tmp |-> t, tmpUsed |-> FALSE, tmpName |-> 0,
     kind |-> "none", fault |-> "none", path |-> <<>>, filename |-> <<>>,
     mime |-> "none", doc |-> <<>>, zip |-> {}, book |-> NoBook]

\* the encoder r ran; export_book makes an ExportResult of its path, of the
\* filename and of the content type when it returned
Ran(book, kind, fault, r) ==
    [exc |-> r.exc, exports |-> r.exports, tmp |-> r.tmp, tmpUsed |-> r.tmpUsed,
     tmpName |-> r.tmpName, kind |-> kind, fault |-> fault,
     path |-> IF r.exc = "none" THEN r.path ELSE <<>>,
     filename |-> IF r.exc = "none" THEN ResultFilename(book, kind) ELSE <<>>,
     mime |-> IF r.exc = "none" THEN MimeOf(kind) ELSE "none",
     doc |-> r.doc, zip |-> r.zip, book |-> r.book]

\* ExportBookOutcome with a fault: the exports directory is made before the
\* book is loaded and the format is looked at
ExportBookOutcome_MkdirFirst(d, x, t, im, id, format, mode, fault) ==
    LET lb   == LoadBook(d, id)
        kind == EncoderFor(format, mode)
        made == [x EXCEPT !.dir = TRUE]
    IN  IF lb.exc # "none" THEN Rejected(made, t, lb.exc)
        ELSE IF kind = "chapters"
             THEN Ran(lb.book, kind, fault, ExportChapters(lb.book, id, made, t, im, fault))
        ELSE IF kind = "single"
             THEN Ran(lb.book, kind, fault, ExportSingleFile(lb.book, id, made, t, im, fault))
        ELSE IF kind = "pdf"
             THEN Ran(lb.book, kind, fault, ExportPdf(lb.book, id, made, t, im, fault))
        ELSE Rejected(made, t, "ExportError")

\* export_service.export_book on library d and temporary area t, for a book
\* whose exports directory is x: load the book, route by format and mode, run
\* the encoder
ExportBookOutcome(d, x, t, im, id, format, mode, fault) ==
    LET lb   == LoadBook(d, id)
        kind == EncoderFor(format, mode)
    IN  IF lb.exc # "none" THEN Rejected(x, t, lb.exc)
        ELSE IF kind = "chapters"
             THEN Ran(lb.book, kind, fault, ExportChapters(lb.book, id, x, t, im, fault))
        ELSE IF kind = "single"
             THEN Ran(lb.book, kind, fault, ExportSingleFile(lb.book, id, x, t, im, fault))
        ELSE IF kind = "pdf"
             THEN Ran(lb.book, kind, fault, ExportPdf(lb.book, id, x, t, im, fault))
        ELSE Rejected(x, t, "ExportError")

\* ExportResponse with a fault: the clause for ExportError comes first and
\* takes BookNotFoundError, its subclass, with it
ExportResponse_NotFoundAsFailure(exc) ==
    CASE exc = "none" -> [status |-> 200, stage |-> "none"]
      [] exc \in {"BookNotFoundError", "ExportError"} ->
             [status |-> 500, stage |-> "Export failed"]
      [] OTHER -> [status |-> 500, stage |-> "Unexpected error"]

\* the answer of export_markdown and export_pdf_endpoint: the FileResponse,
\* or the HTTPException of the except clause that takes exception exc
ExportResponse(exc) ==
    CASE exc = "none"              -> [status |-> 200, stage |-> "none"]
      [] exc = "BookNotFoundError" -> [status |-> 404, stage |-> "none"]
      [] exc = "ExportError"       -> [status |-> 500, stage |-> "Export failed"]
      [] OTHER                     -> [status |-> 500, stage |-> "Unexpected error"]

\* what a call export_book(id, format, mode) with outcome o does, and the
\* answer of the endpoint that made it
ExportBookDoes(id, format, mode, o) ==
        /\ exports' = [exports EXCEPT ![id] = o.exports]
        /\ tmp' = o.tmp
        /\ last' = [Idle EXCEPT !.op = "export", !.id = id, !.exc = o.exc,
                      !.format = format, !.mode = mode, !.fault = o.fault,
                      !.kind = o.kind, !.tmpUsed = o.tmpUsed, !.tmpName = o.tmpName,
                      !.mime = o.mime,
                      !.suffix = IF o.exc = "none" THEN SuffixOf(o.kind) ELSE <<>>,
                      !.filename = o.filename, !.path = o.path,
                      !.overwrote = (o.path # <<>>
                                       /\ o.path[Len(o.path)] \in exports[id].files),
                      !.doc = o.doc, !.zip = o.zip, !.book = o.book,
                      !.status = ExportResponse(o.exc).status,
                      !.stage = ExportResponse(o.exc).stage,
                      !.read = PklExists(disk, id),
                      !.resident = id \in Resident(cache),
                      !.residentVal = IF id \in Resident(cache)
                                      THEN cache[CacheIndex(cache, id)].val
                                      ELSE Absent]
        /\ UNCHANGED <<disk, cache, probes, reads, images, procs>>

\* a call export_book(id, format, mode); the sending of the answer is not
\* followed
ExportBook(id, format, mode, fault) ==
    \E o \in { ExportBookOutcome(disk, exports[id], tmp, images[id], id, format, mode, fault) } :
        ExportBookDoes(id, format, mode, o) /\ UNCHANGED stream

\* the file at the path of the single-file artifact after export_single_file:
\* open(output_file, 'w') empties the file that is there, f.write fills it
\* with the text, or with less of it when the write fails
FileAfterExport(file, o, id, im) ==
    IF o.kind # "single" \/ o.fault \in {"convert", "mkdir", "open"} THEN file
    ELSE LET text == SingleFileOutput(o.book, ImageProcessor(id), im)
         IN  IF o.fault = "write"
             THEN [content |-> text, chunks |-> FileChunks - 1]
             ELSE [content |-> text, chunks |-> FileChunks]

\* GET /export/{book_id}/markdown: export_book, then FileResponse(path=..),
\* which is sent after the handler has returned
ExportMarkdown(id, mode, fault) ==
    /\ Cardinality(stream.sending) < MaxSending
    /\ \E o \in { ExportBookOutcome(disk, exports[id], tmp, images[id], id,
                                     "markdown", mode, fault) } :
          /\ ExportBookDoes(id, "markdown", mode, o)
          /\ stream' =
                [file    |-> FileAfterExport(stream.file, o, id, images[id]),
                 sending |-> IF o.exc = "none"
                             THEN stream.sending \cup
                                  { [slot |-> CHOOSE n \in 1 .. MaxSending :
                                                \A r \in stream.sending : r.slot # n,
                                      got  |-> <<>>] }
                             ELSE stream.sending]

\* the file response r reads its next chunk from the file that is at the
\* path now and sends it; it ends with the last chunk, or when the file ends
SendChunk(r) ==
    /\ UNCHANGED <<disk, exports, tmp, cache, probes, reads, images, procs>>
    /\ LET i    == Len(r.got) + 1
           rest == stream.sending \ {r}
       IN
        IF i <= stream.file.chunks
        THEN LET got == Append(r.got, [content |-> stream.file.content, index |-> i])
             IN  IF i = FileChunks
                 THEN /\ stream' = [stream EXCEPT !.sending = rest]
                      /\ last' = [Idle EXCEPT !.op = "served", !.proc = r.slot, !.doc = got]
                 ELSE /\ stream' = [stream EXCEPT
                                      !.sending = rest \cup {[slot |-> r.slot, got |-> got]}]
                      /\ last' = [Idle EXCEPT !.op = "chunk", !.proc = r.slot]
        ELSE /\ stream' = [stream EXCEPT !.sending = rest]
             /\ last' = [Idle EXCEPT !.op = "served", !.proc = r.slot, !.doc = r.got]

LibrariesExport ==
    LET none == [f \in Folders |-> NoFolder]
        stored(blob, b) == [exists |-> TRUE, blob |-> blob,
                            sha |-> HashUploadToTemp(b), by |-> "api", stale |-> FALSE]
        two == [none EXCEPT
                  ![Candidate(<<"a">>, 1)] = stored(SaveToPickle(ProcessEpub(1)), 1),
                  ![Candidate(<<"a">>, 2)] = stored(CorruptBlob(ProcessEpub(2)), 2)]
    IN  { two,
          [two EXCEPT ![Candidate(<<"a">>, 3)] = [NoFolder EXCEPT !.exists = TRUE]] }

\* the system's temporary area holds a directory of another program
OtherTempDirs == {1}

InitExport ==
    /\ disk \in LibrariesExport
    /\ exports = [f \in Folders |-> NoExports]
    /\ tmp = OtherTempDirs
    /\ cache = <<>>
    /\ probes = 0
    /\ reads = [i \in Ids |-> 0]
    /\ images = [f \in Folders |-> NoImages]
    /\ procs = <<>>
    /\ stream = NoStream
    /\ last = Idle

\* the steps only export_chapters has: writing README.md and writing a
\* chapter file into the temporary directory
\* the faults that can strike a call: those of the encoder, when one runs
FaultsOf(id, call) ==
    IF Loadable(disk, id) /\ call[1] \in {"markdown", "pdf"}
    THEN IF EncoderFor(call[1], call[2]) = "chapters"
         THEN ExportFaults \cup {"readme", "chapter"}
         ELSE ExportFaults
    ELSE {"none"}

\* the identifiers export requests name: a book that loads, one whose blob
\* does not deserialize, and one that is not stored
NextExport ==
    \/ \E id \in { Candidate(<<"a">>, k) : k \in 1 .. 3 }, call \in ExportCalls :
          \E fault \in FaultsOf(id, call) : ExportBook(id, call[1], call[2], fault)
    \/ \E id \in { Candidate(<<"a">>, 2), Candidate(<<"a">>, 3) } : GetBook(id)

\* exports of a fixed library, and requests for its books
SpecExport == InitExport /\ [][NextExport]_vars

---------------------------------------------------------------------------
(* Exports of books of any content *)

\* the forests of exactly n entries
RECURSIVE Forests(_)
Forests(n) ==
    IF n = 0 THEN { <<>> }
    ELSE UNION { { <<Entry(t, c)>> \o rest :
                     t \in { <<"A">> }, c \in Forests(k), rest \in Forests(n - 1 - k) } :
                 k \in 0 .. n - 1 }

\* the identifier of the one stored book
TheBook == Candidate(<<"a">>, 1)

\* the tables of contents of at most MaxToc entries
\* the chapters a spine is made of, any number of times each: an untitled
\* one and a titled one, of different content
\* the spines of at most MaxSpine chapters
\* the books export may find stored: a title that needs sanitizing or a blank
\* one, any spine, any table of contents
LibrariesRender ==
    { [f \in Folders |->
          IF f = TheBook
          THEN [exists |-> TRUE, blob |-> SaveToPickle(book),
                sha |-> HashUploadToTemp(1), by |-> "api", stale |-> FALSE]
          ELSE NoFolder] :
        book \in { [title |-> t, origin |-> 1, spine |-> s, toc |-> f, images |-> {}] :
                     t \in {1, 2},
                     s \in UNION { [1 .. n -> { Chapter(<<>>, 1), Chapter(<<"A">>, 2) }] :
                                     n \in 0 .. MaxSpine },
                     f \in UNION { Forests(n) : n \in 0 .. MaxToc } } }

InitRender ==
    /\ disk \in LibrariesRender
    /\ exports = [f \in Folders |-> NoExports]
    /\ tmp = OtherTempDirs
    /\ cache = <<>>
    /\ probes = 0
    /\ reads = [i \in Ids |-> 0]
    /\ images = [f \in Folders |-> NoImages]
    /\ procs = <<>>
    /\ stream = NoStream
    /\ last = Idle

\* one call for each encoder
RenderCalls == { <<"markdown", "single">>, <<"markdown", "chapters">>, <<"pdf", "none">> }

NextRender ==
    \E call \in RenderCalls : ExportBook(TheBook, call[1], call[2], "none")

\* exports, in every format and mode, of a stored book of any content
SpecRender == InitRender /\ [][NextRender]_vars

\* the book the last export worked on
TheStoredBook == disk[TheBook].blob.book

---------------------------------------------------------------------------
(* Imports of files whose names lead to the same folders *)

\* the base names of 'a.epub' and 'a_2.epub': the second folder for the
\* first name, 'a_2_data', is the first folder for the second
UploadNames == { <<"a">>, <<"a", "2">> }

InitNames ==
    /\ disk = [f \in { Candidate(n, k) : n \in UploadNames, k \in 1 .. MaxSuffix } |-> NoFolder]
    /\ exports = [f \in Folders |-> NoExports]
    /\ tmp = {}
    /\ cache = <<>>
    /\ probes = 0
    /\ reads = [i \in Ids |-> 0]
    /\ images = [f \in Folders |-> NoImages]
    /\ procs = <<>>
    /\ stream = NoStream
    /\ last = Idle

NextNames ==
    \/ \E name \in UploadNames, b \in Bytes, fault \in {"none", "save"} :
          ImportBook(name, b, fault)
    \/ CliImport(<<"a">>, 1, FALSE)

\* imports, through the server and the CLI, under colliding names
SpecNames == InitNames /\ [][NextNames]_vars

---------------------------------------------------------------------------
(* Titles of any make, sanitized *)

\* the characters titles are made of here: a letter, the space and the
\* underscore, a tab, and characters that file systems refuse
\* the strings of at most n of these characters
Affixes(n) == UNION { [1 .. k -> {"A", " ", "_", "\t", "/", "?"}] : k \in 0 .. n }

\* the lengths of the run of letters in the middle of a title: none, and
\* those around the limit
\* titles: at most one special character, a run of letters, and up to
\* MaxAffix characters more
Titles ==
    { p \o [i \in 1 .. n |-> "A"] \o q :
        p \in Affixes(1),
        n \in {0, SanitizeMaxLength - 1, SanitizeMaxLength, SanitizeMaxLength + 1},
        q \in Affixes(MaxAffix) }

InitSanitize ==
    /\ disk = [f \in Folders |-> NoFolder]
    /\ exports = [f \in Folders |-> NoExports]
    /\ tmp = {}
    /\ cache = <<>>
    /\ probes = 0
    /\ reads = [i \in Ids |-> 0]
    /\ images = [f \in Folders |-> NoImages]
    /\ procs = <<>>
    /\ stream = NoStream
    /\ last \in { [Idle EXCEPT !.title = t] : t \in Titles }

\* sanitize_filename(title) for the title at hand, max_length at its default
SanitizeFilenameCall ==
    /\ last.op = "init"
    /\ last' = [last EXCEPT !.op = "sanitize",
                             !.filename = SanitizeFilename(last.title, SanitizeMaxLength)]
    /\ UNCHANGED <<disk, exports, tmp, cache, probes, reads, images, procs, stream>>

\* sanitize_filename on every title
SpecSanitize == InitSanitize /\ [][(SanitizeFilenameCall)]_vars

---------------------------------------------------------------------------
(* Tables of contents of any shape, flattened and rendered *)

\* the forests of exactly n entries with titles of T
RECURSIVE TitledForests(_, _)
TitledForests(n, T) ==
    IF n = 0 THEN { <<>> }
    ELSE UNION { { <<Entry(t, c)>> \o rest :
                     t \in T, c \in TitledForests(k, T),
                     rest \in TitledForests(n - 1 - k, T) } :
                 k \in 0 .. n - 1 }

InitToc ==
    /\ disk = [f \in Folders |-> NoFolder]
    /\ exports = [f \in Folders |-> NoExports]
    /\ tmp = {}
    /\ cache = <<>>
    /\ probes = 0
    /\ reads = [i \in Ids |-> 0]
    /\ images = [f \in Folders |-> NoImages]
    /\ procs = <<>>
    /\ stream = NoStream
    /\ last \in { [Idle EXCEPT !.toc = f] :
                    f \in UNION { TitledForests(n, { <<"A">>, <<"B">> }) : n \in 0 .. MaxToc } }

\* _flatten_toc(book.toc, spine_index) for the table of contents at hand
FlattenTocCall ==
    /\ last' = [last EXCEPT !.op = "flatten", !.flat = FlattenToc(last.toc, 0),
                             !.doc = <<>>, !.mode = "none"]
    /\ UNCHANGED <<disk, exports, tmp, cache, probes, reads, images, procs, stream>>

\* generate_toc_markdown(book.toc, mode) for the table of contents at hand
GenerateTocMarkdownCall(mode) ==
    /\ last' = [last EXCEPT !.op = "toc", !.mode = mode, !.flat = <<>>,
                             !.doc = GenerateTocMarkdown(last.toc, mode, 0)]
    /\ UNCHANGED <<disk, exports, tmp, cache, probes, reads, images, procs, stream>>

NextToc ==
    \/ FlattenTocCall
    \/ \E mode \in {"single", "chapters"} : GenerateTocMarkdownCall(mode)

\* the two traversals of the table of contents, on every forest
SpecToc == InitToc /\ [][NextToc]_vars

---------------------------------------------------------------------------
(* The server's endpoints together: imports, requests for a book, exports *)

\* the steps of an encoder that fail in the requests made here
HttpFaults == {"none", "write"}

NextHttp ==
    \/ \E fault \in ImportFaults : ImportBook(<<"a">>, 1, fault)
    \/ CliImport(<<"a">>, 1, FALSE)
    \/ GetBook(TheBook)
    \/ \E call \in RenderCalls :
          \E fault \in FaultsOf(TheBook, call) \cap HttpFaults :
              ExportBook(TheBook, call[1], call[2], fault)

\* one file imported through the server and the CLI, requested and exported
SpecHttp == Init /\ [][NextHttp]_vars

---------------------------------------------------------------------------
(* Exports of a book with images, while image files come and go *)

\* another program writes, replaces, spoils or removes an image file
ImageChanges(id, name, file) ==
    /\ images[id][name] # file
    /\ images' = [images EXCEPT ![id][name] = file]
    /\ last' = [Idle EXCEPT !.op = "image-file"]
    /\ UNCHANGED <<disk, exports, tmp, cache, probes, reads, procs, stream>>

\* a stored book whose chapters show images: p.png, an <img> without src and
\* q in the first chapter, p.png again in the second
ImageBook ==
    [title |-> 1, origin |-> 1,
     spine |-> << Chapter(<<"A">>, 3), Chapter(<<>>, 4) >>,
     toc |-> << Entry(<<"A">>, <<>>) >>, images |-> ImageNames]

LibraryEmbed ==
    [f \in Folders |->
        IF f = TheBook
        THEN [exists |-> TRUE, blob |-> SaveToPickle(ImageBook),
              sha |-> HashUploadToTemp(1), by |-> "api", stale |-> FALSE]
        ELSE NoFolder]

InitEmbed ==
    /\ disk = LibraryEmbed
    /\ exports = [f \in Folders |-> NoExports]
    /\ tmp = OtherTempDirs
    /\ cache = <<>>
    /\ probes = 0
    /\ reads = [i \in Ids |-> 0]
    /\ images \in { [f \in Folders |-> IF f = TheBook THEN dir ELSE NoImages] :
                      dir \in [ImageNames -> ImageFiles] }
    /\ procs = <<>>
    /\ stream = NoStream
    /\ last = Idle

\* a call for each encoder, and one in a format that has none
NextEmbed ==
    \/ \E call \in (RenderCalls \cup { <<"epub", "none">> }) :
          \E fault \in FaultsOf(TheBook, call) : ExportBook(TheBook, call[1], call[2], fault)
    \/ \E name \in ImageNames, file \in ImageFiles : ImageChanges(TheBook, name, file)

\* exports of a book with images in every format and mode, the encoders
\* failing or not, while the image files change between the calls
SpecEmbed == InitEmbed /\ [][NextEmbed]_vars

---------------------------------------------------------------------------
(* Exports of one artifact while earlier answers are still being sent *)

InitServe ==
    /\ disk = LibraryEmbed
    /\ exports = [f \in Folders |-> NoExports]
    /\ tmp = OtherTempDirs
    /\ cache = <<>>
    /\ probes = 0
    /\ reads = [i \in Ids |-> 0]
    /\ images = [f \in Folders |->
                    IF f = TheBook THEN [NoImages EXCEPT !["p.png"] = 1] ELSE NoImages]
    /\ procs = <<>>
    /\ stream = NoStream
    /\ last = Idle

NextServe ==
    \/ \E fault \in HttpFaults : ExportMarkdown(TheBook, "single", fault)
    \/ \E r \in stream.sending : SendChunk(r)
    \/ \E file \in {NoImage, 1} : ImageChanges(TheBook, "p.png", file)

\* requests for the single-file Markdown of one book, their answers sent
\* chunk by chunk while later requests export again
SpecServe == InitServe /\ [][NextServe]_vars

---------------------------------------------------------------------------
(* Image processors at work while image files come and go *)

\* the files images/q may be from the start; only images/p.png changes later
InitImages ==
    /\ disk \in LibrariesExport
    /\ exports = [f \in Folders |-> NoExports]
    /\ tmp = OtherTempDirs
    /\ cache = <<>>
    /\ probes = 0
    /\ reads = [i \in Ids |-> 0]
    /\ images \in { [f \in Folders |-> IF f = TheBook THEN dir ELSE NoImages] :
                        dir \in { d \in [ImageNames -> ImageFiles] : d["q"] \in {NoImage, 1} } }
    /\ procs = <<>>
    /\ stream = NoStream
    /\ last = Idle

\* an export call for book id constructs its image processor
NewImageProcessor(id) ==
    /\ Len(procs) < MaxProcessors
    /\ procs' = Append(procs, ImageProcessor(id))
    /\ last' = [Idle EXCEPT !.op = "processor", !.id = id, !.proc = Len(procs) + 1]
    /\ UNCHANGED <<disk, exports, tmp, cache, probes, reads, images, stream>>

\* the export call that made instance p calls p.get_base64_data_uri(filename)
CallGetBase64DataUri(p, filename) ==
    \E r \in { GetBase64DataUri(procs[p], images[procs[p].id], filename) } :
        /\ procs' = [procs EXCEPT ![p] = r.ip]
        /\ last' = [Idle EXCEPT !.op = "image", !.id = procs[p].id, !.proc = p,
                      !.image = filename, !.uri = r.val, !.exc = r.exc,
                      !.read = r.read]
        /\ UNCHANGED <<disk, exports, tmp, cache, probes, reads, images, stream>>


NextImages ==
    \/ NewImageProcessor(TheBook)
    \/ \E p \in 1 .. Len(procs), filename \in ImageNames : CallGetBase64DataUri(p, filename)
    \/ \E file \in ImageFiles : ImageChanges(TheBook, "p.png", file)

\* image processors of several export calls, used while the images change
SpecImages == InitImages /\ [][NextImages]_vars

---------------------------------------------------------------------------
(* Claims *)

Supported == {"markdown", "pdf"}

\* C1: after any sequence of imports, through the server or the CLI, no two
\* stored book folders hold a book parsed from the same upload.
C1_NeverStoredTwice ==
    \A f, g \in Folders :
        (f # g /\ PklExists(disk, f) /\ PklExists(disk, g))
            => disk[f].blob.book.origin # disk[g].blob.book.origin

\* what the 409 answer must name, given the entry the cache now holds first
C2_Named ==
    IF cache[1].val.found
    THEN [byTitle |-> TRUE, title |-> cache[1].val.book.title, id |-> <<>>]
    ELSE [byTitle |-> FALSE, title |-> 0, id |-> last.id]

C2_Answer ==
    (last.op = "import" /\ last.known) =>
        /\ last.status = 409
        /\ ~last.parsed
        /\ last.id \in Folders
        /\ disk[last.id].exists
        /\ disk[last.id].sha = HashUploadToTemp(last.bytes)
        /\ Len(cache) >= 1
        /\ cache[1].key = last.id
        /\ last.detail = C2_Named

C3_Bounded ==
    /\ Len(cache) <= CacheMaxSize
    /\ \A i, j \in 1 .. Len(cache) : cache[i].key = cache[j].key => i = j
    /\ (last.op = "get" \/ (last.op = "import" /\ last.status = 409)) =>
          /\ Len(cache) >= 1
          /\ cache[1] = [key |-> last.id, val |-> last.val]
          /\ last.read => last.val = LoadBookUncached(disk, last.id).val

\* every entry but a freshly loaded one was resident before, with the same value
C3_Carried ==
    \A i \in 1 .. Len(cache') :
        (cache'[i].key # last'.id \/ ~last'.read) =>
            \E j \in 1 .. Len(cache) : cache[j] = cache'[i]

\* C3: the cache never holds more than 10 entries, cached 'absent' results
\* included, has one entry per identifier, and an entry enters it only as the
\* result loaded for its identifier and is never altered afterwards.
C3_CacheBoundedAndFaithful == []C3_Bounded /\ [][C3_Carried]_vars

\* C3's case: a book evicted by capacity pressure is loaded again into a full
\* cache that also holds 'absent' entries
C3_Witness ==
    /\ Len(cache) = CacheMaxSize
    /\ last.op = "get"
    /\ last.read
    /\ last.val.found
    /\ \E i \in 1 .. Len(cache) : ~cache[i].val.found

\* C4: while an identifier stays resident its stored blob is read at most
\* once, and a request for a resident identifier is answered with the
\* resident result without reading storage.
C4_LoadedAtMostOnce ==
    /\ \A id \in Ids : reads[id] <= 1
    /\ (last.op = "get" /\ last.resident) =>
          (~last.read /\ last.val = last.residentVal)

\* C4's case: a cached 'absent' answers a request in a full cache
C4_Witness ==
    /\ last.op = "get"
    /\ last.resident
    /\ ~last.val.found
    /\ Len(cache) = CacheMaxSize

\* C5: a book stored by import_book is never hidden by a cached 'absent':
\* no such entry is resident for it, and a request for it returns the book.
C5_ImportVisible ==
    /\ \A f \in Folders :
          (disk[f].by = "api" /\ Loadable(disk, f)) =>
              \A i \in 1 .. Len(cache) : cache[i].key = f => cache[i].val.found
    /\ (last.op = "get" /\ last.id \in Folders /\ disk[last.id].by = "api"
            /\ Loadable(disk, last.id)) =>
          last.val = Present(disk[last.id].blob.book)

\* C5's case: the book was imported while an 'absent' for its identifier was
\* cached, and the request after the import returns it
C5_Witness ==
    /\ last.op = "get"
    /\ last.id \in Folders
    /\ disk[last.id].by = "api"
    /\ disk[last.id].stale
    /\ last.val = Present(disk[last.id].blob.book)

\* C6: for an identifier without a loadable blob, one that does not
\* deserialize included, export's load_book raises BookNotFoundError and
\* load_book_cached returns 'absent' without raising.
C6_CorruptIsNotFound ==
    (last.op \in {"export", "get"} /\ last.id \in Folders /\ ~Loadable(disk, last.id)) =>
        IF last.op = "export"
        THEN last.exc = "BookNotFoundError"
        ELSE last.exc = "none" /\ last.val = Absent /\ last.status = 404

\* C6's case: an export of a book whose blob does not deserialize
C6_Witness ==
    /\ last.op = "export"
    /\ disk[last.id].blob.kind = "corrupt"
    /\ last.exc = "BookNotFoundError"

\* C7 as claimed: export_book fails with not-found for an identifier without
\* a loadable book, with unsupported-format exactly for a format outside
\* {markdown, pdf}, and succeeds otherwise.
C7_SucceedsOtherwise ==
    last.op = "export" =>
        IF ~Loadable(disk, last.id) THEN last.exc = "BookNotFoundError"
        ELSE IF last.format \notin Supported THEN last.exc = "ExportError"
        ELSE last.exc = "none"

\* C7 as amended: not-found and unsupported-format as claimed; for a loadable
\* book and a supported format export_book fails with neither, and succeeds
\* exactly when its encoder does not fail.
C7_ValidationOutcome ==
    last.op = "export" =>
        IF ~Loadable(disk, last.id) THEN last.exc = "BookNotFoundError"
        ELSE IF last.format \notin Supported THEN last.exc = "ExportError"
        ELSE /\ last.exc \notin {"BookNotFoundError", "ExportError"}
             /\ last.exc = "none" <=> last.fault = "none"

\* C7's case: a supported format, a loadable book, and an encoder that fails
C7_Witness ==
    /\ last.op = "export"
    /\ Loadable(disk, last.id)
    /\ last.format = "pdf"
    /\ last.exc = "OSError"

\* C8: an export_book call that ends in not-found or unsupported-format
\* changes nothing in storage: no artifact, no exports directory, no
\* temporary working area.
C8_RejectedExportWritesNothing ==
    [][(last'.op = "export" /\ last'.exc \in {"BookNotFoundError", "ExportError"}) =>
          /\ exports' = exports
          /\ disk' = disk
          /\ tmp' = tmp
          /\ ~last'.tmpUsed]_vars

\* C8's case: an unsupported format for a loadable book with no exports directory
C8_Witness ==
    /\ last.op = "export"
    /\ last.exc = "ExportError"
    /\ Loadable(disk, last.id)
    /\ ~exports[last.id].dir

\* C9: every failure of export_book is BookNotFoundError, the
\* unsupported-format ExportError or ConversionError.
C9_TaxonomyOnly ==
    (last.op = "export" /\ last.exc # "none") =>
        last.exc \in {"BookNotFoundError", "ExportError", "ConversionError"}

\* C10: after an export whose encoder failed, the final artifact path holds
\* no file or a complete artifact, never a partial one.
C10_NoPartialArtifact ==
    (last.op = "export" /\ last.exc # "none") =>
        \A kind \in {"single", "chapters", "pdf"} : exports[last.id][kind] # "partial"

\* C11: the temporary directory of an export_chapters call is new when the
\* call makes it (no directory of that name existed), and when the call ends,
\* by return or by a failure at any step, the temporary area holds exactly
\* what it held before the call.
C11_TempDirOwnedAndRemoved ==
    [][(last'.op = "export" /\ last'.kind = "chapters") =>
          /\ last'.tmpUsed
          /\ last'.tmpName \notin tmp
          /\ tmp' = tmp]_vars

\* C11's case: export_chapters failed while building the ZIP archive
C11_Witness ==
    /\ last.op = "export"
    /\ last.kind = "chapters"
    /\ last.fault = "write"
    /\ last.exc = "OSError"
    /\ last.tmpUsed
    /\ last.tmpName \notin tmp

\* the suffix and the content type claimed for a format and mode
C12_Claimed(format, mode) ==
    IF format = "markdown" /\ mode = "chapters"
    THEN [suffix |-> <<"_", "c", "h", "a", "p", "t", "e", "r", "s", ".", "z", "i", "p">>,
          mime |-> "application/zip"]
    ELSE IF format = "markdown"
    THEN [suffix |-> <<"_", "s", "i", "n", "g", "l", "e", ".", "m", "d">>,
          mime |-> "text/markdown"]
    ELSE [suffix |-> <<".", "p", "d", "f">>, mime |-> "application/pdf"]

\* C12: after a successful export_book the artifact is a file of the book's
\* own exports directory, books/<identifier>/exports/, and the suggested
\* filename is sanitize_filename(title) followed by '_single.md',
\* '_chapters.zip' or '.pdf', with the content type text/markdown,
\* application/zip or application/pdf.
C12_ArtifactPathAndName ==
    (last.op = "export" /\ last.exc = "none") =>
        LET claimed == C12_Claimed(last.format, last.mode)
        IN  /\ last.filename =
                  SanitizeFilename(TitleText(disk[last.id].blob.book.title),
                                   SanitizeMaxLength) \o claimed.suffix
            /\ last.mime = claimed.mime
            /\ Len(last.path) = 4
            /\ SubSeq(last.path, 1, 3) = <<"books", last.id, "exports">>
            /\ \A i \in 1 .. Len(last.path[4]) : last.path[4][i] \notin {"/", "\\"}
            /\ last.path[4] \in exports[last.id].files
            /\ exports[last.id][last.kind] = "complete"

\* C12's case: the chapter-split export of a book whose title needs sanitizing
C12_Witness ==
    /\ last.op = "export"
    /\ last.exc = "none"
    /\ last.mode = "chapters"
    /\ TitleText(disk[last.id].blob.book.title) = <<"M", "y", " ", "B", ":", " ", "A">>
    /\ last.filename = <<"M", "y", "_", "B", "_", "A", "_", "c", "h", "a", "p", "t",
                         "e", "r", "s", ".", "z", "i", "p">>

\* C13: a successful export_book call that follows a successful call with
\* the same identifier, format and mode returns the same filename, content
\* type and path, and a successful call whose artifact already exists leaves
\* the set of files of the exports directory as it was.
C13_ExportIdempotent ==
    [][(last'.op = "export" /\ last'.exc = "none") =>
          /\ (last.op = "export" /\ last.exc = "none" /\ last.id = last'.id
                /\ last.format = last'.format /\ last.mode = last'.mode) =>
                 /\ last'.filename = last.filename
                 /\ last'.mime = last.mime
                 /\ last'.path = last.path
                 /\ exports'[last'.id].files = exports[last'.id].files
          /\ last'.path[Len(last'.path)] \in exports[last'.id].files =>
                 exports'[last'.id].files = exports[last'.id].files]_vars

\* C13's case: the single-file export was made again over its own artifact
C13_Witness ==
    /\ last.op = "export"
    /\ last.exc = "none"
    /\ last.kind = "single"
    /\ last.overwrote
    /\ exports[last.id].files = { last.filename }

\* C14 as claimed: for format markdown and a book that loads, export_book runs
\* the chapter-split encoder exactly when mode is 'chapters', and for every
\* other mode it runs the single-file encoder and returns the '_single.md',
\* text/markdown result without raising.
C14_ReturnsWithoutRaising ==
    (last.op = "export" /\ last.format = "markdown" /\ Loadable(disk, last.id)) =>
        /\ last.kind = "chapters" <=> last.mode = "chapters"
        /\ last.mode # "chapters" =>
              /\ last.kind = "single"
              /\ last.exc = "none"
              /\ last.mime = "text/markdown"
              /\ last.suffix = <<"_", "s", "i", "n", "g", "l", "e", ".", "m", "d">>

\* C14 as amended: the routing as claimed; for a mode other than 'chapters'
\* the call raises neither not-found nor unsupported-format, and returns the
\* '_single.md', text/markdown result unless the single-file encoder fails.
C14_ModeRouting ==
    (last.op = "export" /\ last.format = "markdown" /\ Loadable(disk, last.id)) =>
        /\ last.kind = "chapters" <=> last.mode = "chapters"
        /\ last.mode # "chapters" =>
              /\ last.kind = "single"
              /\ last.exc \notin {"BookNotFoundError", "ExportError"}
              /\ last.exc = "none" <=> last.fault = "none"
              /\ last.exc = "none" =>
                    /\ last.mime = "text/markdown"
                    /\ last.suffix = <<"_", "s", "i", "n", "g", "l", "e", ".", "m", "d">>

\* C14's case: an unrecognized mode is served by the single-file encoder
C14_Witness ==
    /\ last.op = "export"
    /\ last.format = "markdown"
    /\ last.mode = "other"
    /\ last.kind = "single"
    /\ last.exc = "none"
    /\ last.mime = "text/markdown"

\* the last request was a successful export by the encoder of this kind
Exported(kind) == last.op = "export" /\ last.exc = "none" /\ last.kind = kind

\* the names of the entries of the archive the last export wrote
ZipNames == { e.name : e \in last.zip }

\* the lines of the table of contents in the document the last export wrote
TocLines == SelectSeq(last.doc, LAMBDA p : p.piece = "toc")

\* the number of entries of a forest, children included
RECURSIVE ForestSize(_)
ForestSize(toc) ==
    IF toc = <<>> THEN 0
    ELSE 1 + ForestSize(toc[1].children) + ForestSize(Tail(toc))

\* C15: the archive of a chapter-split export of a book with n spine chapters
\* has exactly n + 1 entries with pairwise distinct names, none in a
\* subdirectory: README.md and, for every spine index i, the file
\* <i zero-padded to two digits>_<sanitized title>.md, the title being
\* 'Chapter_<i+1>' for an untitled chapter.
C15_ZipEntries ==
    Exported("chapters") =>
        LET spine == TheStoredBook.spine
            n     == Len(spine)
        IN  /\ Cardinality(last.zip) = n + 1
            /\ Cardinality(ZipNames) = n + 1
            /\ ReadmeName \in ZipNames
            /\ \A k \in 1 .. n :
                  ZeroPad2(k - 1) \o <<"_">>
                    \o SanitizeFilename(IF spine[k].title = <<>>
                                        THEN <<"C", "h", "a", "p", "t", "e", "r", "_">>
                                                 \o Decimal(k)
                                        ELSE spine[k].title, SanitizeMaxLength)
                    \o <<".", "m", "d">> \in ZipNames
            /\ \A name \in ZipNames : \A i \in 1 .. Len(name) : name[i] \notin {"/", "\\"}

\* C15's case: a spine of two chapters of the same title and an untitled one
C15_Witness ==
    /\ Exported("chapters")
    /\ Len(TheStoredBook.spine) = 3
    /\ TheStoredBook.spine[1].title = <<"A">>
    /\ TheStoredBook.spine[2].title = <<"A">>
    /\ TheStoredBook.spine[3].title = <<>>
    /\ Cardinality(ZipNames) = 4
    /\ <<"0", "2", "_", "C", "h", "a", "p", "t", "e", "r", "_", "3", ".", "m", "d">>
          \in ZipNames

\* C16: every file link in the README.md of a chapter-split export names a
\* file of the archive.
C16_ReadmeLinksAreFiles ==
    Exported("chapters") =>
        LET readme == CHOOSE e \in last.zip : e.name = ReadmeName
        IN  { readme.content[i].link :
                i \in { j \in 1 .. Len(readme.content) : readme.content[j].piece = "toc" } }
                  \subseteq ZipNames

\* C17: in the single-file export the table of contents links its entries, in
\* pre-order, to '#chapter-0', '#chapter-1', ...: each entry to the anchor of
\* its position in the traversal, no two entries to the same anchor.
C17_AnchorsByPreorderPosition ==
    Exported("single") =>
        /\ Len(TocLines) = ForestSize(TheStoredBook.toc)
        /\ \A j \in 1 .. Len(TocLines) : TocLines[j].link = <<"#">> \o AnchorName(j - 1)
        /\ \A j, k \in 1 .. Len(TocLines) : TocLines[j].link = TocLines[k].link => j = k

\* C18: in the single-file export every anchor the table of contents links
\* to is defined by an '<a id=..>' of the document.
C18_TocAnchorsDefined ==
    Exported("single") =>
        \A j \in 1 .. Len(TocLines) :
            \E i \in 1 .. Len(last.doc) :
                /\ last.doc[i].piece = "anchor"
                /\ TocLines[j].link = <<"#">> \o last.doc[i].text

\* C19: the single-file document of a book with n >= 1 spine chapters begins
\* with the frontmatter and holds exactly n - 1 chapter dividers, each between
\* the content of a chapter and the anchor of the next, none after the last
\* chapter.
C19_DividersBetweenChapters ==
    (Exported("single") /\ Len(TheStoredBook.spine) >= 1) =>
        LET doc      == last.doc
            dividers == { i \in 1 .. Len(doc) : doc[i].piece = "divider" }
        IN  /\ doc[1].piece = "frontmatter"
            /\ Cardinality(dividers) = Len(TheStoredBook.spine) - 1
            /\ \A i \in dividers :
                  /\ 1 < i /\ i < Len(doc)
                  /\ doc[i - 1].piece = "markdown"
                  /\ doc[i + 1].piece = "anchor"
            /\ doc[Len(doc)].piece = "markdown"
            /\ \A i \in 1 .. Len(doc) - 1 :
                  ~(doc[i].piece = "markdown" /\ doc[i + 1].piece = "anchor")

\* C19's case: three chapters, two dividers
C19_Witness ==
    /\ Exported("single")
    /\ Len(TheStoredBook.spine) = 3
    /\ Cardinality({ i \in 1 .. Len(last.doc) : last.doc[i].piece = "divider" }) = 2
    /\ TheStoredBook.toc # <<>>

\* C20: the single-file and the PDF documents hold, for i = 1 .. n in this
\* order and nothing else of the kind, the heading 'Chapter i' followed by
\* the content of the i-th chapter of the spine.
C20_SpineOrder ==
    (Exported("single") \/ Exported("pdf")) =>
        LET spine == TheStoredBook.spine
            body  == SelectSeq(last.doc,
                               LAMBDA p : p.piece \in {"heading", "markdown", "html"})
        IN  /\ Len(body) = 2 * Len(spine)
            /\ \A i \in 1 .. Len(spine) :
                  /\ body[2 * i - 1].piece = "heading"
                  /\ body[2 * i - 1].n = i
                  /\ body[2 * i].piece = IF last.kind = "pdf" THEN "html" ELSE "markdown"
                  /\ body[2 * i].n = spine[i].content

\* C20's case: a PDF of three chapters stored with the contents 2, 1, 2 under
\* a table of contents of one entry
C20_Witness ==
    /\ Exported("pdf")
    /\ Len(TheStoredBook.spine) = 3
    /\ TheStoredBook.spine[1].content = 2
    /\ TheStoredBook.spine[2].content = 1
    /\ TheStoredBook.spine[3].content = 2
    /\ Len(TheStoredBook.toc) = 1
    /\ Len(last.doc) > 6

\* an entry of instance p's memo stays as it is
C21_MemoKept ==
    \A p \in 1 .. Len(procs) : \A e \in procs[p].memo : e \in procs'[p].memo

\* a call for a memoized filename opens no file and returns the memoized
\* data URI; any other call looks at the file as it is now, whatever the
\* other instances memoized
C21_Call ==
    last'.op = "image" =>
        LET p    == last'.proc
            name == last'.image
            file == images[procs[p].id][name]
        IN  IF InMemo(procs[p].memo, name)
            THEN /\ ~last'.read
                 /\ last'.uri = MemoAt(procs[p].memo, name)
                 /\ procs' = procs
            ELSE /\ last'.uri = IF file \in ImageData THEN DataUri(name, file) ELSE NoUri
                 /\ last'.read = (file # NoImage)
                 /\ \A q \in 1 .. Len(procs) : q # p => procs'[q] = procs[q]

\* a new instance starts with an empty memo
C21_Fresh ==
    Len(procs') > Len(procs) => procs'[Len(procs')].memo = {}

\* C21: within one ImageProcessor instance a filename that was resolved is
\* never read again, every later call returns the memoized data URI even
\* when the file changed or is gone; an instance starts with an empty memo
\* and uses nothing that another instance memoized.
C21_MemoPerInstance == [][C21_MemoKept /\ C21_Call /\ C21_Fresh]_vars

\* C21's case: the second instance has just read p.png anew while the first
\* holds another data URI for it, and the first has answered from its memo
\* for a file that is gone
C21_Witness ==
    /\ Len(procs) = 2
    /\ InMemo(procs[1].memo, "p.png")
    /\ InMemo(procs[2].memo, "p.png")
    /\ MemoAt(procs[1].memo, "p.png") # MemoAt(procs[2].memo, "p.png")
    /\ last.op = "image"
    /\ last.proc = 1
    /\ last.image = "p.png"
    /\ ~last.read
    /\ last.uri = MemoAt(procs[1].memo, "p.png")
    /\ images[TheBook]["p.png"] = NoImage

\* the <img> tags of a chapter as the claim has them written, given the
\* image files there are: the data URI for an image that resolves, the
\* original src for any other
C22_Tags(content) ==
    [j \in 1 .. Len(ImgSrcs(content)) |->
        LET src == ImgSrcs(content)[j]
        IN  IF src # <<>> /\ images[last.id][Basename(src)] \in ImageData
            THEN [src |-> <<>>,
                  uri |-> DataUri(Basename(src), images[last.id][Basename(src)])]
            ELSE [src |-> src, uri |-> NoUri]]

\* the chapters as the claim has them written, as pieces of the given kind
C22_Chapters(kind) ==
    LET spine == disk[last.id].blob.book.spine
    IN  [k \in 1 .. Len(spine) |->
            Piece(kind, spine[k].content, C22_Tags(spine[k].content), <<>>)]

\* C22: a missing or unreadable image never aborts an export: when no step
\* of the encoder fails otherwise, the export completes with all chapters,
\* each <img> carrying the data URI when its image resolves and its original
\* src when it does not.
C22_MissingImagesKept ==
    (last.op = "export" /\ last.fault = "none" /\ last.kind # "none") =>
        /\ last.exc = "none"
        /\ last.kind = "single" =>
              SelectSeq(last.doc, LAMBDA x : x.piece = "markdown") = C22_Chapters("markdown")
        /\ last.kind = "pdf" =>
              SelectSeq(last.doc, LAMBDA x : x.piece = "html") = C22_Chapters("html")
        /\ last.kind = "chapters" =>
              LET files == { f \in last.zip : f.name # ReadmeName }
                  spine == disk[last.id].blob.book.spine
              IN  /\ Cardinality(files) = Len(spine)
                  /\ \A k \in 1 .. Len(spine) :
                        \E f \in files :
                            /\ f.name = ChapterFileName(spine[k], k - 1)
                            /\ f.content[2] = C22_Chapters("markdown")[k]

\* C22's case: a chapter-split export completed although q is unreadable;
\* p.png is written as a data URI in both chapters
C22_Witness ==
    /\ last.op = "export"
    /\ last.kind = "chapters"
    /\ last.exc = "none"
    /\ images[last.id]["q"] = Unreadable
    /\ images[last.id]["p.png"] \in ImageData
    /\ \E f \in last.zip :
          /\ f.name # ReadmeName
          /\ \E j \in 1 .. Len(f.content[2].text) :
                f.content[2].text[j] = [src |-> <<"images", "q">>, uri |-> NoUri]
    /\ \A f \in last.zip :
          f.name # ReadmeName =>
              f.content[2].text[1].uri = DataUri("p.png", images[last.id]["p.png"])

\* an export call leaves the library and the cached books as they are, and
\* the Book it worked on equal to the stored one
C23_Export ==
    last'.op = "export" =>
        /\ disk' = disk
        /\ cache' = cache
        /\ last'.kind # "none" => last'.book = disk[last'.id].blob.book

\* C23: no export mutates the book: after any export_book call, in any
\* format and mode, failed or not, the Book's metadata, spine, TOC and image
\* mapping and the stored blob are what they were before the call.
C23_ExportLeavesBook == [][C23_Export]_vars

\* C23's case: the PDF encoder embedded p.png and then failed to write,
\* after a single-file export of the same book had succeeded
C23_Witness ==
    /\ last.op = "export"
    /\ last.kind = "pdf"
    /\ last.exc = "OSError"
    /\ exports[last.id].single = "complete"
    /\ images[last.id]["p.png"] \in ImageData
    /\ last.book = ImageBook
    /\ disk[last.id].blob = SaveToPickle(ImageBook)

RECURSIVE C25_Paths(_)
C25_Paths(forest) ==
    UNION { { <<i>> } \cup { <<i>> \o p : p \in C25_Paths(forest[i].children) } :
            i \in 1 .. Len(forest) }

RECURSIVE C25_EntryAt(_, _)
C25_EntryAt(forest, path) ==
    IF Len(path) = 1 THEN forest[path[1]]
    ELSE C25_EntryAt(forest[path[1]].children, Tail(path))

\* p comes before q in pre-order: p is an ancestor of q, or where the two
\* paths part p takes the earlier child
C25_Before(p, q) ==
    /\ p # q
    /\ \/ Len(p) < Len(q) /\ SubSeq(q, 1, Len(p)) = p
       \/ \E i \in 1 .. Len(p) :
             /\ i <= Len(q)
             /\ SubSeq(p, 1, i - 1) = SubSeq(q, 1, i - 1)
             /\ p[i] < q[i]

\* the place of the entry at path p in the pre-order of the forest
C25_Rank(forest, p) == Cardinality({ q \in C25_Paths(forest) : C25_Before(q, p) }) + 1

\* C25: generate_toc_markdown and _flatten_toc visit the forest in pre-order,
\* children in stored order: each entry appears exactly once, at its place in
\* the pre-order, with depth (indent level) equal to its nesting level,
\* roots at 0.
C25_PreorderDepth ==
    LET paths == C25_Paths(last.toc)
    IN  /\ last.op = "flatten" =>
              /\ Len(last.flat) = Cardinality(paths)
              /\ \A p \in paths :
                    last.flat[C25_Rank(last.toc, p)] =
                        [title |-> C25_EntryAt(last.toc, p).title, depth |-> Len(p) - 1]
        /\ last.op = "toc" =>
              /\ Len(last.doc) = Cardinality(paths)
              /\ \A p \in paths :
                    LET line == last.doc[C25_Rank(last.toc, p)]
                    IN  /\ line.piece = "toc"
                        /\ line.text = C25_EntryAt(last.toc, p).title
                        /\ line.n = Len(p) - 1

\* C25's case: an entry with a child, followed by a second root of another
\* title, has been flattened
C25_Witness ==
    /\ last.op = "flatten"
    /\ Len(last.toc) = 2
    /\ last.toc[1].children # <<>>
    /\ last.toc[1].children[1].title # last.toc[2].title
    /\ last.flat = << [title |-> last.toc[1].title, depth |-> 0],
                      [title |-> last.toc[1].children[1].title, depth |-> 1],
                      [title |-> last.toc[2].title, depth |-> 0] >>

\* the title holds no character that sanitizing keeps, underscores aside
C26_SanitizesToNothing(title) ==
    \A i \in 1 .. Len(title) : title[i] \notin (WordChars \ {"_"}) \cup {"-", "."}

\* C26: sanitize_filename returns a non-empty string of at most 200
\* characters without a space and without / \ : * ? " < > |, and
\* 'book_export' for a title that is empty, blank or sanitizes to nothing.
C26_SafeName ==
    last.op = "sanitize" =>
        /\ last.filename # <<>>
        /\ Len(last.filename) <= SanitizeMaxLength
        /\ \A i \in 1 .. Len(last.filename) :
              last.filename[i] \notin InvalidChars \cup {" "}
        /\ (\A i \in 1 .. Len(last.title) : last.title[i] \in Whitespace) =>
              last.filename = BookExport
        /\ C26_SanitizesToNothing(last.title) => last.filename = BookExport

\* C26's case: a title longer than the limit was cut at an underscore, and
\* the underscore went too
C26_Witness ==
    /\ last.op = "sanitize"
    /\ Len(last.title) > SanitizeMaxLength
    /\ Len(last.filename) = SanitizeMaxLength - 1
    /\ last.filename # BookExport

\* C27: export requests read the book through the book cache: the export of
\* a resident identifier reads no stored blob, and finds the book exactly
\* when the cached answer for the identifier holds one.
C27_ExportThroughCache ==
    (last.op = "export" /\ last.resident) =>
        /\ ~last.read
        /\ (last.exc # "BookNotFoundError") = last.residentVal.found

\* how an import has left the temporary area and the folder it chose
C28_After ==
    last.op = "import" =>
        /\ last.tmpUsed
        /\ last.tmpName \notin tmp
        /\ last.status = 200 =>
              /\ disk[last.id].exists
              /\ disk[last.id].blob = SaveToPickle(ProcessEpub(last.bytes))
              /\ disk[last.id].sha = HashUploadToTemp(last.bytes)
        /\ last.status = 500 =>
              /\ ~disk[last.id].exists
              /\ ~IsBookFolder(disk, last.id)
              /\ last.id \notin FindDuplicateByHash(disk, HashUploadToTemp(last.bytes))

\* an import that does not succeed leaves the library and the temporary
\* area as they were
C28_Nothing ==
    (last'.op = "import" /\ last'.status # 200) => (disk' = disk /\ tmp' = tmp)

\* C28: import_book is all-or-nothing: on every path the uploaded temporary
\* file is removed, and the chosen book folder exists only after a
\* successful import, then with the stored book and its fingerprint; a
\* failed import leaves no folder behind.
C28_AllOrNothing == []C28_After /\ [][C28_Nothing]_vars

\* C28's case: the fingerprint write of an import into a second folder failed
C28_Witness ==
    /\ last.op = "import"
    /\ last.status = 500
    /\ last.fault = "fingerprint"
    /\ last.id = Candidate(<<"a">>, 2)
    /\ ~disk[last.id].exists
    /\ disk[Candidate(<<"a">>, 1)].exists
    /\ last.tmpName \notin tmp

\* an import through the server leaves every folder there is as it is, and
\* stores into the first candidate of its base name that did not exist
C29_Import ==
    last'.op = "import" =>
        /\ \A f \in DOMAIN disk : disk[f].exists => disk'[f] = disk[f]
        /\ last'.status = 200 =>
              /\ ~disk[last'.id].exists
              /\ \E k \in 1 .. MaxSuffix :
                    /\ last'.id = Candidate(last'.name, k)
                    /\ \A j \in 1 .. k - 1 : disk[Candidate(last'.name, j)].exists

\* C29: import_book never writes into a book folder that exists:
\* _resolve_unique_folder returns '<base>_data' or the first
\* '<base>_<k>_data' that does not exist, so every book stored before, and
\* its fingerprint, is unchanged by any later import_book.
C29_NeverOverwrites == [][C29_Import]_vars

\* C29's case: 'a_2.epub' was stored into 'a_2_2_data', because 'a_2_data'
\* holds the second book imported as 'a.epub'
C29_Witness ==
    /\ last.op = "import"
    /\ last.status = 200
    /\ last.name = <<"a", "2">>
    /\ last.id = Candidate(<<"a", "2">>, 2)
    /\ disk[Candidate(<<"a">>, 1)].exists
    /\ disk[Candidate(<<"a">>, 2)].by = "api"
    /\ disk[Candidate(<<"a">>, 2)].sha # NoHash

\* C30: an artifact that is being served is never truncated or rewritten by
\* another export request: every response delivers a complete artifact, all
\* its chunks, in order, of the text one export wrote.
C30_CompleteArtifacts ==
    last.op = "served" =>
        /\ Len(last.doc) = FileChunks
        /\ \A i \in 1 .. Len(last.doc) :
              /\ last.doc[i].index = i
              /\ last.doc[i].content = last.doc[1].content

====
